---------------------------- MODULE Spec2Model ----------------------------
(***************************************************************************)
(* The user directory of the NestJS backend: UsersService and the routes   *)
(* of UsersController over the "users" table (entity User).                *)
(*                                                                         *)
(* A JavaScript object is a function from property names to values; a      *)
(* property the object does not have is outside its DOMAIN.  A table row   *)
(* has every column.  Strings are model strings, except passwords, which   *)
(* are sequences of one-character strings so that the regular expressions  *)
(* of isPasswordStrong are computed character by character.  An ISO date   *)
(* string and a Date are pairs <<day, timeOfDay>>; SQL NULL is NullDate    *)
(* for the date column and NullText for a text column.                     *)
(***************************************************************************)
EXTENDS Integers, Sequences, FiniteSets, TLC

VARIABLES
    db,       \* the database: [rows, seq, now]
    call,     \* the last service call: [op, id, email, active, dto]
    result,   \* what that call returned or threw: [status, message, users]
    before,   \* db when that call started
    earlier,  \* <<the user's row before the deactivate>> after deactivate(id); activate(id)
    removed,  \* ids for which remove has returned successfully
    dtoOk,    \* every create/update body so far passes the validation pipe
    calls,    \* the number of calls made
    dbT,      \* a second database, served the same requests (SpecTwin)
    resultT,  \* the response of the second database to the last request
    procs,    \* concurrent calls, each at one of its awaits (SpecRace)
    deploy,   \* the run of deploy-production.sh and the host it runs on (SpecDeploy)
    cache     \* the responses the CacheInterceptor holds, and the clock (SpecCache)

vars == <<db, call, result, before, earlier, removed, dtoOk, calls, dbT, resultT,
          procs, deploy, cache>>

---------------------------------------------------------------------------
(* Bounds of the model *)

\* calls made in one run
MaxCalls == 4

\* an id the sequence never reaches
NoSuchId == 999

\* ids a request may name
ProbeIds == {1, 2, NoSuchId}

---------------------------------------------------------------------------
(* Characters and the passwords used as inputs *)

UpperCase ==
    {"A","B","C","D","E","F","G","H","I","J","K","L","M",
     "N","O","P","Q","R","S","T","U","V","W","X","Y","Z"}

LowerCase ==
    {"a","b","c","d","e","f","g","h","i","j","k","l","m",
     "n","o","p","q","r","s","t","u","v","w","x","y","z"}

Digits == {"0","1","2","3","4","5","6","7","8","9"}

\* the character class of hasSpecialChar: [!@#$%^&*(),.?":{}|<>]
SpecialChars ==
    {"!","@","#","$","%","^","&","*","(",")",",",".","?","\"",":","{","}","|","<",">"}

\* "weak"
PwWeak == <<"w","e","a","k">>
\* "SecurePass123!"
PwSecure == <<"S","e","c","u","r","e","P","a","s","s","1","2","3","!">>
\* "Secure_Pass-1": its only non-alphanumeric characters are '_' and '-'
PwUnderscore == <<"S","e","c","u","r","e","_","P","a","s","s","-","1">>
\* "securepass1!": no uppercase letter
PwNoUpper == <<"s","e","c","u","r","e","p","a","s","s","1","!">>
\* "SECUREPASS1?": no lowercase letter
PwNoLower == <<"S","E","C","U","R","E","P","A","S","S","1","?">>
\* "SecurePass#": no digit
PwNoDigit == <<"S","e","c","u","r","e","P","a","s","s","#">>
\* "Aa1{Bb2}": strong, a second accepted password
PwBraces == <<"A","a","1","{","B","b","2","}">>

Passwords ==
    {PwWeak, PwSecure, PwUnderscore, PwNoUpper, PwNoLower, PwNoDigit, PwBraces}


---------------------------------------------------------------------------
(* The entity User and the request bodies *)

\* the role labels @IsIn admits
RoleLabels == {"user", "admin", "moderator"}

\* @MinLength(8) on CreateUserDto.password
MinPasswordLength == 8

NullText == "NULL"
NullDate == <<>>

\* the select list every public read passes to the repository
PublicColumns ==
    {"id", "firstName", "lastName", "email", "dateOfBirth", "phoneNumber",
     "isActive", "createdAt", "updatedAt", "roles"}

\* the columns of the table
AllColumns == PublicColumns \cup {"password"}

\* the columns a find without a select list loads: password is select: false
DefaultColumns == AllColumns \ {"password"}

\* the properties CreateUserDto declares
DtoFields ==
    {"firstName", "lastName", "email", "password", "roles", "dateOfBirth",
     "phoneNumber"}

Emails == {"a@x.com", "b@x.com"}

\* the addresses a lookup by email may name: those above and one that differs
\* from the first in the case of its letters only
ProbeEmails == Emails \cup {"A@X.COM"}

\* the ISO strings "1990-01-01" and "1990-01-01T10:30:00Z": the day, and the
\* time of day when the string has one
DateOnly == [date |-> 1]
DateTime == [date |-> 1, time |-> 1]

\* the object with the properties of a and of b, b's values where both have one
Assign(a, b) ==
    [f \in (DOMAIN a) \cup (DOMAIN b) |-> IF f \in DOMAIN b THEN b[f] ELSE a[f]]

\* the object o without the properties in fs
Omit(o, fs) == [f \in (DOMAIN o) \ fs |-> o[f]]

\* the object o restricted to the properties in fs
Pick(o, fs) == [f \in (DOMAIN o) \cap fs |-> o[f]]

BaseDto(e, p) ==
    [firstName |-> "John", lastName |-> "Doe", email |-> e, password |-> p]

\* the optional properties a create body carries
CreateOptions ==
    { <<>>,
      [roles |-> <<>>],
      [roles |-> <<"admin", "moderator">>, dateOfBirth |-> DateTime,
       phoneNumber |-> "+1234567890"] }

\* the bodies of POST /users
CreateInputs ==
    { Assign(BaseDto(e, PwSecure), o) : e \in Emails, o \in CreateOptions }
        \cup { BaseDto("a@x.com", p) : p \in Passwords }

\* the bodies of PATCH /users/:id
UpdateInputs ==
    { <<>>,
      [firstName |-> "Jane"],
      [firstName |-> "Jane", lastName |-> "Smith"],
      [email |-> "b@x.com"],
      [password |-> PwWeak],
      [password |-> PwNoUpper],
      [roles |-> <<>>],
      [dateOfBirth |-> DateOnly],
      [phoneNumber |-> "+1987654321", roles |-> <<"root">>] }

\* the decorators of CreateUserDto, as the validation pipe applies them
ValidCreateDto(dto) ==
    /\ DOMAIN dto \subseteq DtoFields
    /\ {"firstName", "lastName", "email", "password"} \subseteq DOMAIN dto
    /\ Len(dto.password) >= MinPasswordLength
    /\ "roles" \in DOMAIN dto =>
           \A i \in 1 .. Len(dto.roles) : dto.roles[i] \in RoleLabels

\* UpdateUserDto: every property of CreateUserDto, each optional
ValidUpdateDto(dto) ==
    /\ DOMAIN dto \subseteq DtoFields
    /\ "password" \in DOMAIN dto => Len(dto.password) >= MinPasswordLength
    /\ "roles" \in DOMAIN dto =>
           \A i \in 1 .. Len(dto.roles) : dto.roles[i] \in RoleLabels

---------------------------------------------------------------------------
(* The repository: Repository<User> over the users table *)

\* the value a column holds for an entity property: a date column keeps the day
ToColumn(f, v) ==
    IF f = "dateOfBirth" /\ v # NullDate THEN <<v[1], 0>> ELSE v

\* the ids of the rows the where clause {f: v} selects
Matching(rows, f, v) == { i \in DOMAIN rows : rows[i][f] = v }

Min(S) == CHOOSE x \in S : \A y \in S : x <= y

\* repository.findOne({where: {f: v}, select: cols}): <<>> for null, else <<entity>>
RepoFindOne(rows, f, v, cols) ==
    IF Matching(rows, f, v) = {}
    THEN <<>>
    ELSE << Pick(rows[Min(Matching(rows, f, v))], cols) >>

RECURSIVE InIdOrder(_, _)
InIdOrder(rows, ids) ==
    IF ids = {} THEN <<>>
    ELSE <<rows[Min(ids)]>> \o InIdOrder(rows, ids \ {Min(ids)})

\* repository.find({where, select}): the selected rows, in id order
RepoFind(rows, ids, cols) ==
    [ i \in 1 .. Cardinality(ids) |-> Pick(InIdOrder(rows, ids)[i], cols) ]


\* RepoInsert with the id taken from the number of rows, not from the sequence
RepoInsert_reuseId(d, entity) ==
    LET id == Cardinality(DOMAIN d.rows) + 1
        t == d.now + 1
        generated ==
            [id |-> id,
             isActive |-> IF "isActive" \in DOMAIN entity THEN entity.isActive ELSE TRUE,
             roles |-> IF "roles" \in DOMAIN entity THEN entity.roles ELSE <<"user">>,
             createdAt |-> t,
             updatedAt |-> t]
        nulls == [dateOfBirth |-> NullDate, phoneNumber |-> NullText]
        stored == [f \in DOMAIN entity |-> ToColumn(f, entity[f])]
        row == Assign(Assign(nulls, stored), generated)
    IN  [db |-> [rows |-> Assign(d.rows, [i \in {id} |-> row]), seq |-> id, now |-> t],
         entity |-> Assign(entity, generated)]

\* INSERT: the sequence gives the id, the column defaults fill isActive and
\* roles, NULL fills the nullable columns, the clock stamps both dates; the
\* entity comes back with the generated and defaulted columns merged in
RepoInsert(d, entity) ==
    LET id == d.seq + 1
        t == d.now + 1
        generated ==
            [id |-> id,
             isActive |-> IF "isActive" \in DOMAIN entity THEN entity.isActive ELSE TRUE,
             roles |-> IF "roles" \in DOMAIN entity THEN entity.roles ELSE <<"user">>,
             createdAt |-> t,
             updatedAt |-> t]
        nulls == [dateOfBirth |-> NullDate, phoneNumber |-> NullText]
        stored == [f \in DOMAIN entity |-> ToColumn(f, entity[f])]
        row == Assign(Assign(nulls, stored), generated)
    IN  [db |-> [rows |-> Assign(d.rows, [i \in {id} |-> row]), seq |-> id, now |-> t],
         entity |-> Assign(entity, generated)]

\* the columns of an entity whose value differs from the row; the row is
\* loaded without password, so a password the entity carries always differs
ChangedColumns(row, entity) ==
    { f \in (DOMAIN entity) \ {"id", "createdAt", "updatedAt"} :
          f = "password" \/ ToColumn(f, entity[f]) # row[f] }

\* an UPDATE that writes the whole row from the entity, with an empty value
\* for a column the entity was loaded without
RepoUpdate_wholeRow(d, entity) ==
    LET t == d.now + 1
        newRow ==
            [f \in AllColumns |->
                IF f = "updatedAt" THEN t
                ELSE IF f \in DOMAIN entity THEN ToColumn(f, entity[f])
                ELSE <<>>]
    IN  [db |-> [d EXCEPT !.rows[entity.id] = newRow, !.now = t],
         entity |-> Assign(entity, [updatedAt |-> t])]

\* an UPDATE that stamps createdAt as it stamps updatedAt
RepoUpdate_stampsCreatedAt(d, entity) ==
    LET row == d.rows[entity.id]
        changed == ChangedColumns(row, entity)
        t == d.now + 1
        newRow ==
            [f \in AllColumns |->
                IF f \in {"createdAt", "updatedAt"} THEN t
                ELSE IF f \in changed THEN ToColumn(f, entity[f])
                ELSE row[f]]
    IN  IF changed = {}
        THEN [db |-> d, entity |-> entity]
        ELSE [db |-> [d EXCEPT !.rows[entity.id] = newRow, !.now = t],
              entity |-> Assign(entity, [createdAt |-> t, updatedAt |-> t])]

\* save() of a loaded entity: UPDATE of the columns whose value differs from
\* the row, which advances updatedAt; with no such column no statement is
\* issued, the row keeps its updatedAt and the entity comes back as it is
RepoUpdate(d, entity) ==
    LET row == d.rows[entity.id]
        changed == ChangedColumns(row, entity)
        t == d.now + 1
        newRow ==
            [f \in AllColumns |->
                IF f = "updatedAt" THEN t
                ELSE IF f \in changed THEN ToColumn(f, entity[f])
                ELSE row[f]]
    IN  IF changed = {}
        THEN [db |-> d, entity |-> entity]
        ELSE [db |-> [d EXCEPT !.rows[entity.id] = newRow, !.now = t],
              entity |-> Assign(entity, [updatedAt |-> t])]

\* repository.save(entity)
RepoSave(d, entity) ==
    IF "id" \in DOMAIN entity THEN RepoUpdate(d, entity) ELSE RepoInsert(d, entity)

\* repository.delete(id): the database after it and the affected count
RepoDelete(d, id) ==
    IF id \in DOMAIN d.rows
    THEN [db |-> [d EXCEPT !.rows = [i \in (DOMAIN d.rows) \ {id} |-> d.rows[i]]],
          affected |-> 1]
    ELSE [db |-> d, affected |-> 0]

---------------------------------------------------------------------------
(* UsersService *)

Ok(users) == [status |-> "ok", message |-> [text |-> "", id |-> 0], users |-> users]

Conflict ==
    [status |-> "ConflictException",
     message |-> [text |-> "User with this email already exists", id |-> 0],
     users |-> <<>>]

WeakPassword ==
    [status |-> "BadRequestException",
     message |-> [text |-> "Password must contain at least one uppercase letter, one lowercase letter, one number, and one special character",
                  id |-> 0],
     users |-> <<>>]

NotFound(id) ==
    [status |-> "NotFoundException",
     message |-> [text |-> "User with ID <id> not found", id |-> id],
     users |-> <<>>]

\* some character of the password is in the class
Test(class, password) == \E i \in 1 .. Len(password) : password[i] \in class

\* isPasswordStrong with any non-alphanumeric character counted as special
isPasswordStrong_anySymbol(password) ==
    LET hasUpperCase == Test(UpperCase, password)
        hasLowerCase == Test(LowerCase, password)
        hasNumbers == Test(Digits, password)
        hasSpecialChar ==
            \E i \in 1 .. Len(password) :
                password[i] \notin (UpperCase \cup LowerCase \cup Digits)
    IN  hasUpperCase /\ hasLowerCase /\ hasNumbers /\ hasSpecialChar

isPasswordStrong(password) ==
    LET hasUpperCase == Test(UpperCase, password)
        hasLowerCase == Test(LowerCase, password)
        hasNumbers == Test(Digits, password)
        hasSpecialChar == Test(SpecialChars, password)
    IN  hasUpperCase /\ hasLowerCase /\ hasNumbers /\ hasSpecialChar

hashPassword(password) == password

\* new Date(iso): the instant <<day, time of day>>, midnight for a date alone
NewDate(iso) == <<iso.date, IF "time" \in DOMAIN iso THEN iso.time ELSE 0>>

\* NewUser with the roles of the body dropped for the default
NewUser_rolesIgnored(dto) ==
    Assign(Omit(dto, {"dateOfBirth"}),
           Assign([password |-> hashPassword(dto.password), roles |-> <<"user">>],
                  IF "dateOfBirth" \in DOMAIN dto
                  THEN [dateOfBirth |-> NewDate(dto.dateOfBirth)]
                  ELSE <<>>))

\* the object create() hands to repository.create
NewUser(dto) ==
    Assign(Omit(dto, {"dateOfBirth"}),
           Assign([password |-> hashPassword(dto.password),
                   roles |-> IF "roles" \in DOMAIN dto THEN dto.roles ELSE <<"user">>],
                  IF "dateOfBirth" \in DOMAIN dto
                  THEN [dateOfBirth |-> NewDate(dto.dateOfBirth)]
                  ELSE <<>>))

\* create without the lookup of the email
create_noLookup(d, dto) ==
    LET saved == RepoSave(d, NewUser(dto))
    IN  IF ~isPasswordStrong(dto.password) THEN [db |-> d, res |-> WeakPassword]
        ELSE [db |-> saved.db, res |-> Ok(<<Omit(saved.entity, {"password"})>>)]

\* create with the strength of the password tested ahead of the lookup
create_passwordFirst(d, dto) ==
    LET existingUser == RepoFindOne(d.rows, "email", dto.email, DefaultColumns)
        saved == RepoSave(d, NewUser(dto))
    IN  IF ~isPasswordStrong(dto.password) THEN [db |-> d, res |-> WeakPassword]
        ELSE IF existingUser # <<>> THEN [db |-> d, res |-> Conflict]
        ELSE [db |-> saved.db, res |-> Ok(<<Omit(saved.entity, {"password"})>>)]

create(d, dto) ==
    LET existingUser == RepoFindOne(d.rows, "email", dto.email, DefaultColumns)
        saved == RepoSave(d, NewUser(dto))
    IN  IF existingUser # <<>> THEN [db |-> d, res |-> Conflict]
        ELSE IF ~isPasswordStrong(dto.password) THEN [db |-> d, res |-> WeakPassword]
        ELSE [db |-> saved.db, res |-> Ok(<<Omit(saved.entity, {"password"})>>)]

\* findAll over the active users only
findAll_onlyActive(d) ==
    [db |-> d,
     res |-> Ok(RepoFind(d.rows, Matching(d.rows, "isActive", TRUE), PublicColumns))]

findAll(d) == [db |-> d, res |-> Ok(RepoFind(d.rows, DOMAIN d.rows, PublicColumns))]

findOne(d, id) ==
    LET user == RepoFindOne(d.rows, "id", id, PublicColumns)
    IN  [db |-> d, res |-> IF user = <<>> THEN NotFound(id) ELSE Ok(user)]

\* the address with its letters in lower case
FoldCase(email) == IF email = "A@X.COM" THEN "a@x.com" ELSE email

\* findByEmail that matches without regard to the case of the letters
findByEmail_ignoreCase(d, email) ==
    LET ids == { i \in DOMAIN d.rows : FoldCase(d.rows[i].email) = FoldCase(email) }
    IN  [db |-> d,
         res |-> Ok(IF ids = {} THEN <<>> ELSE <<Pick(d.rows[Min(ids)], PublicColumns)>>)]

findByEmail(d, email) ==
    [db |-> d, res |-> Ok(RepoFindOne(d.rows, "email", email, PublicColumns))]

findByEmailForAuth(d, email) ==
    [db |-> d, res |-> Ok(RepoFindOne(d.rows, "email", email, AllColumns))]

\* update without the lookup of the new email
update_noEmailCheck(d, id, dto) ==
    LET found == RepoFindOne(d.rows, "id", id, DefaultColumns)
        assigned == Assign(found[1], dto)
        entity ==
            IF "dateOfBirth" \in DOMAIN dto
            THEN Assign(assigned, [dateOfBirth |-> NewDate(dto.dateOfBirth)])
            ELSE assigned
        saved == RepoSave(d, entity)
    IN  IF found = <<>> THEN [db |-> d, res |-> NotFound(id)]
        ELSE [db |-> saved.db, res |-> Ok(<<Omit(saved.entity, {"password"})>>)]

\* update returning the saved entity as it is
update_keepPassword(d, id, dto) ==
    LET found == RepoFindOne(d.rows, "id", id, DefaultColumns)
        user == found[1]
        emailChanges ==
            "email" \in DOMAIN dto /\ dto.email # "" /\ dto.email # user.email
        existingUser == RepoFindOne(d.rows, "email", dto.email, DefaultColumns)
        assigned == Assign(user, dto)
        entity ==
            IF "dateOfBirth" \in DOMAIN dto
            THEN Assign(assigned, [dateOfBirth |-> NewDate(dto.dateOfBirth)])
            ELSE assigned
        saved == RepoSave(d, entity)
    IN  IF found = <<>> THEN [db |-> d, res |-> NotFound(id)]
        ELSE IF emailChanges /\ existingUser # <<>> THEN [db |-> d, res |-> Conflict]
        ELSE [db |-> saved.db, res |-> Ok(<<saved.entity>>)]

\* update that looks the new email up even when it is the user's own
update_ownEmailConflicts(d, id, dto) ==
    LET found == RepoFindOne(d.rows, "id", id, DefaultColumns)
        user == found[1]
        emailGiven == "email" \in DOMAIN dto /\ dto.email # ""
        existingUser == RepoFindOne(d.rows, "email", dto.email, DefaultColumns)
        assigned == Assign(user, dto)
        entity ==
            IF "dateOfBirth" \in DOMAIN dto
            THEN Assign(assigned, [dateOfBirth |-> NewDate(dto.dateOfBirth)])
            ELSE assigned
        saved == RepoSave(d, entity)
    IN  IF found = <<>> THEN [db |-> d, res |-> NotFound(id)]
        ELSE IF emailGiven /\ existingUser # <<>> THEN [db |-> d, res |-> Conflict]
        ELSE [db |-> saved.db, res |-> Ok(<<Omit(saved.entity, {"password"})>>)]

\* update with the lookup of the new email ahead of the lookup of the id
update_emailFirst(d, id, dto) ==
    LET found == RepoFindOne(d.rows, "id", id, DefaultColumns)
        user == found[1]
        existingUser == RepoFindOne(d.rows, "email", dto.email, DefaultColumns)
        taken ==
            /\ "email" \in DOMAIN dto
            /\ dto.email # ""
            /\ existingUser # <<>>
            /\ (found = <<>> \/ dto.email # user.email)
        assigned == Assign(user, dto)
        entity ==
            IF "dateOfBirth" \in DOMAIN dto
            THEN Assign(assigned, [dateOfBirth |-> NewDate(dto.dateOfBirth)])
            ELSE assigned
        saved == RepoSave(d, entity)
    IN  IF taken THEN [db |-> d, res |-> Conflict]
        ELSE IF found = <<>> THEN [db |-> d, res |-> NotFound(id)]
        ELSE [db |-> saved.db, res |-> Ok(<<Omit(saved.entity, {"password"})>>)]

update(d, id, dto) ==
    LET found == RepoFindOne(d.rows, "id", id, DefaultColumns)
        user == found[1]
        emailChanges ==
            "email" \in DOMAIN dto /\ dto.email # "" /\ dto.email # user.email
        existingUser == RepoFindOne(d.rows, "email", dto.email, DefaultColumns)
        assigned == Assign(user, dto)
        entity ==
            IF "dateOfBirth" \in DOMAIN dto
            THEN Assign(assigned, [dateOfBirth |-> NewDate(dto.dateOfBirth)])
            ELSE assigned
        saved == RepoSave(d, entity)
    IN  IF found = <<>> THEN [db |-> d, res |-> NotFound(id)]
        ELSE IF emailChanges /\ existingUser # <<>> THEN [db |-> d, res |-> Conflict]
        ELSE [db |-> saved.db, res |-> Ok(<<Omit(saved.entity, {"password"})>>)]

\* remove that does not look at the affected count
remove_anyCount(d, id) ==
    LET deleted == RepoDelete(d, id)
    IN  [db |-> deleted.db, res |-> Ok(<<>>)]

remove(d, id) ==
    LET deleted == RepoDelete(d, id)
    IN  IF deleted.affected = 0
        THEN [db |-> deleted.db, res |-> NotFound(id)]
        ELSE [db |-> deleted.db, res |-> Ok(<<>>)]

\* deactivate and activate: user.isActive = active, then save
setActive(d, id, active) ==
    LET found == RepoFindOne(d.rows, "id", id, DefaultColumns)
        saved == RepoSave(d, Assign(found[1], [isActive |-> active]))
    IN  IF found = <<>> THEN [db |-> d, res |-> NotFound(id)]
        ELSE [db |-> saved.db, res |-> Ok(<<Omit(saved.entity, {"password"})>>)]

\* deactivate writing the flag of activate
deactivate_setsTrue(d, id) == setActive(d, id, TRUE)

deactivate(d, id) == setActive(d, id, FALSE)

activate(d, id) == setActive(d, id, TRUE)

\* findByActiveStatus without the where clause
findByActiveStatus_noFilter(d, active) ==
    [db |-> d, res |-> Ok(RepoFind(d.rows, DOMAIN d.rows, PublicColumns))]

findByActiveStatus(d, active) ==
    [db |-> d,
     res |-> Ok(RepoFind(d.rows, Matching(d.rows, "isActive", active), PublicColumns))]


---------------------------------------------------------------------------
(* Calls, and the routes of UsersController *)

NoUsers == [i \in {} |-> <<>>]

Call(op, id, email, active, dto) ==
    [op |-> op, id |-> id, email |-> email, active |-> active, dto |-> dto]

\* the service method a call names
Service(d, c) ==
    CASE c.op = "create" -> create(d, c.dto)
      [] c.op = "findAll" -> findAll(d)
      [] c.op = "findOne" -> findOne(d, c.id)
      [] c.op = "findByEmail" -> findByEmail(d, c.email)
      [] c.op = "findByEmailForAuth" -> findByEmailForAuth(d, c.email)
      [] c.op = "update" -> update(d, c.id, c.dto)
      [] c.op = "remove" -> remove(d, c.id)
      [] c.op = "deactivate" -> deactivate(d, c.id)
      [] c.op = "activate" -> activate(d, c.id)
      [] c.op = "findByActiveStatus" -> findByActiveStatus(d, c.active[1])

\* GET /users?active=: the filter when the query is given, else everything
ctlFindAll(d, active) ==
    IF active # <<>> THEN findByActiveStatus(d, active[1]) ELSE findAll(d)

\* ctlFindByEmail over the lookup that selects the password
ctlFindByEmail_auth(d, email) ==
    LET r == findByEmailForAuth(d, email)
    IN  IF r.res.users = <<>>
        THEN [db |-> r.db,
              res |-> [status |-> "NotFoundException",
                       message |-> [text |-> "User not found", id |-> 0],
                       users |-> <<>>]]
        ELSE r

\* GET /users/email/:email: null becomes 404
ctlFindByEmail(d, email) ==
    LET r == findByEmail(d, email)
    IN  IF r.res.users = <<>>
        THEN [db |-> r.db,
              res |-> [status |-> "NotFoundException",
                       message |-> [text |-> "User not found", id |-> 0],
                       users |-> <<>>]]
        ELSE r

\* the handler of UsersController a request reaches
Controller(d, c) ==
    CASE c.op = "create" -> create(d, c.dto)
      [] c.op = "findAll" -> ctlFindAll(d, c.active)
      [] c.op = "findOne" -> findOne(d, c.id)
      [] c.op = "findByEmail" -> ctlFindByEmail(d, c.email)
      [] c.op = "update" -> update(d, c.id, c.dto)
      [] c.op = "remove" -> remove(d, c.id)
      [] c.op = "deactivate" -> deactivate(d, c.id)
      [] c.op = "activate" -> activate(d, c.id)

---------------------------------------------------------------------------
(* The service, called sequentially *)

Init ==
    /\ db = [rows |-> NoUsers, seq |-> 0, now |-> 0]
    /\ call = Call("none", 0, "", <<>>, <<>>)
    /\ result = Ok(<<>>)
    /\ before = db
    /\ earlier = <<>>
    /\ removed = {}
    /\ dtoOk = TRUE
    /\ calls = 0
    /\ dbT = db
    /\ resultT = Ok(<<>>)
    /\ procs = <<>>
    /\ deploy = <<>>
    /\ cache = <<>>

\* one call of the service, from its start to its return or throw
Step(c) ==
    LET r == Service(db, c)
    IN  /\ db' = r.db
        /\ call' = c
        /\ result' = r.res
        /\ before' = db
        /\ earlier' = IF /\ c.op = "activate"
                         /\ call.op = "deactivate"
                         /\ call.id = c.id
                         /\ result.status = "ok"
                      THEN <<before.rows[c.id]>> ELSE <<>>
        /\ removed' = IF c.op = "remove" /\ r.res.status = "ok"
                       THEN removed \cup {c.id} ELSE removed
        /\ dtoOk' = (/\ dtoOk
                     /\ c.op = "create" => ValidCreateDto(c.dto)
                     /\ c.op = "update" => ValidUpdateDto(c.dto))
        /\ calls' = calls + 1
        /\ UNCHANGED <<dbT, resultT, procs, deploy, cache>>

Create ==
    /\ calls < MaxCalls
    /\ \E dto \in CreateInputs : Step(Call("create", 0, "", <<>>, dto))

FindAll ==
    /\ calls < MaxCalls
    /\ Step(Call("findAll", 0, "", <<>>, <<>>))

FindOne ==
    /\ calls < MaxCalls
    /\ \E id \in ProbeIds : Step(Call("findOne", id, "", <<>>, <<>>))

FindByEmail ==
    /\ calls < MaxCalls
    /\ \E e \in ProbeEmails : Step(Call("findByEmail", 0, e, <<>>, <<>>))

FindByEmailForAuth ==
    /\ calls < MaxCalls
    /\ \E e \in Emails : Step(Call("findByEmailForAuth", 0, e, <<>>, <<>>))

Update ==
    /\ calls < MaxCalls
    /\ \E id \in ProbeIds, dto \in UpdateInputs :
           Step(Call("update", id, "", <<>>, dto))

Remove ==
    /\ calls < MaxCalls
    /\ \E id \in ProbeIds : Step(Call("remove", id, "", <<>>, <<>>))

Deactivate ==
    /\ calls < MaxCalls
    /\ \E id \in ProbeIds : Step(Call("deactivate", id, "", <<>>, <<>>))

Activate ==
    /\ calls < MaxCalls
    /\ \E id \in ProbeIds : Step(Call("activate", id, "", <<>>, <<>>))

FindByActiveStatus ==
    /\ calls < MaxCalls
    /\ \E b \in BOOLEAN : Step(Call("findByActiveStatus", 0, "", <<b>>, <<>>))

Next ==
    \/ Create
    \/ FindAll
    \/ FindOne
    \/ FindByEmail
    \/ FindByEmailForAuth
    \/ Update
    \/ Remove
    \/ Deactivate
    \/ Activate
    \/ FindByActiveStatus

Spec == Init /\ [][Next]_vars


---------------------------------------------------------------------------
(* Two databases behind the same controller, served the same requests; a   *)
(* PATCH that sets a password may set another one in the second database,  *)
(* so the two come to differ in the passwords they hold.                   *)

\* the body sent to the second database: dto, with password q if it has one
TwinDto(dto, q) ==
    IF "password" \in DOMAIN dto THEN Assign(dto, [password |-> q]) ELSE dto

\* the passwords the second body may carry in place of dto's
TwinPasswords(dto) ==
    IF "password" \in DOMAIN dto THEN {PwWeak, PwSecure, PwBraces} ELSE {PwWeak}

\* the bodies of POST /users sent to both databases
TwinCreateInputs == { dto \in CreateInputs : dto.password \in {PwSecure, PwWeak} }

\* one request, handled by the controller over each database
TwinStep(c, cT) ==
    LET r == Controller(db, c)
        rT == Controller(dbT, cT)
    IN  /\ db' = r.db
        /\ dbT' = rT.db
        /\ call' = c
        /\ result' = r.res
        /\ resultT' = rT.res
        /\ before' = db
        /\ calls' = calls + 1
        /\ UNCHANGED <<earlier, removed, dtoOk, procs, deploy, cache>>

TwinSame(c) == TwinStep(c, c)

TwinCreate ==
    /\ calls < MaxCalls
    /\ \E dto \in TwinCreateInputs : TwinSame(Call("create", 0, "", <<>>, dto))

TwinFindAll ==
    /\ calls < MaxCalls
    /\ \E a \in {<<>>, <<TRUE>>, <<FALSE>>} : TwinSame(Call("findAll", 0, "", a, <<>>))

TwinFindOne ==
    /\ calls < MaxCalls
    /\ \E id \in ProbeIds : TwinSame(Call("findOne", id, "", <<>>, <<>>))

TwinFindByEmail ==
    /\ calls < MaxCalls
    /\ \E e \in Emails : TwinSame(Call("findByEmail", 0, e, <<>>, <<>>))

\* the bodies of PATCH /users/:id sent to both databases: one body with a
\* password is enough, the second database gets it with each twin password
TwinUpdateInputs == UpdateInputs \ {[password |-> PwNoUpper]}

TwinUpdate ==
    /\ calls < MaxCalls
    /\ \E id \in ProbeIds, dto \in TwinUpdateInputs : \E q \in TwinPasswords(dto) :
           TwinStep(Call("update", id, "", <<>>, dto),
                    Call("update", id, "", <<>>, TwinDto(dto, q)))

TwinRemove ==
    /\ calls < MaxCalls
    /\ \E id \in ProbeIds : TwinSame(Call("remove", id, "", <<>>, <<>>))

TwinDeactivate ==
    /\ calls < MaxCalls
    /\ \E id \in ProbeIds : TwinSame(Call("deactivate", id, "", <<>>, <<>>))

TwinActivate ==
    /\ calls < MaxCalls
    /\ \E id \in ProbeIds : TwinSame(Call("activate", id, "", <<>>, <<>>))

TwinNext ==
    \/ TwinCreate
    \/ TwinFindAll
    \/ TwinFindOne
    \/ TwinFindByEmail
    \/ TwinUpdate
    \/ TwinRemove
    \/ TwinDeactivate
    \/ TwinActivate

SpecTwin == Init /\ [][TwinNext]_vars


---------------------------------------------------------------------------
(* Properties *)

\* some row of the database d holds the email
EmailTaken(d, email) == \E i \in DOMAIN d.rows : d.rows[i].email = email

\* no user a result carries has a password property
NoPasswordIn(res) == \A i \in 1 .. Len(res.users) : "password" \notin DOMAIN res.users[i]

\* C1: after any sequence of sequential create, update, remove, activate and
\* deactivate calls no two stored users have the same email.  RepoInsert and
\* RepoUpdate enforce no unique constraint, so only the lookups of the
\* service keep this.
C1_UniqueEmail ==
    \A i, j \in DOMAIN db.rows : i # j => db.rows[i].email # db.rows[j].email

\* two users are stored and an update to the other user's email was refused
C1_Witness ==
    /\ Cardinality(DOMAIN db.rows) = 2
    /\ call.op = "update"
    /\ "email" \in DOMAIN call.dto
    /\ result.status = "ConflictException"

\* C2: create with an email some stored user has fails with the
\* ConflictException 'User with this email already exists' and leaves the
\* store as it was: no row is added and findAll returns what it returned.
C2_DuplicateCreate ==
    (call.op = "create" /\ EmailTaken(before, call.dto.email)) =>
        /\ result = Conflict
        /\ result.message.text = "User with this email already exists"
        /\ db = before
        /\ findAll(db).res = findAll(before).res

\* a create with a strong password was refused for its email
C2_Witness ==
    /\ call.op = "create"
    /\ EmailTaken(before, call.dto.email)
    /\ isPasswordStrong(call.dto.password)
    /\ result.status = "ConflictException"

\* the rule as the claim words it: an uppercase letter, a lowercase letter,
\* a digit and one of !@#$%^&*(),.?":{}|<>
MeetsRule(password) ==
    /\ \E i \in 1 .. Len(password) : password[i] \in UpperCase
    /\ \E i \in 1 .. Len(password) : password[i] \in LowerCase
    /\ \E i \in 1 .. Len(password) : password[i] \in Digits
    /\ \E i \in 1 .. Len(password) : password[i] \in SpecialChars

\* C3: a create whose email is free fails with the BadRequestException and
\* stores nothing unless the password has an uppercase letter, a lowercase
\* letter, a digit and a symbol of the set, and succeeds when it has all
\* four; "weak" and a password whose only symbols are '_' and '-' are
\* rejected, "SecurePass123!" is accepted.
C3_PasswordRule ==
    (call.op = "create" /\ ~EmailTaken(before, call.dto.email)) =>
        /\ MeetsRule(call.dto.password) =>
               /\ result.status = "ok"
               /\ Cardinality(DOMAIN db.rows) = Cardinality(DOMAIN before.rows) + 1
        /\ ~MeetsRule(call.dto.password) => (result = WeakPassword /\ db = before)
        /\ call.dto.password = PwWeak => result.status = "BadRequestException"
        /\ call.dto.password = PwUnderscore => result.status = "BadRequestException"
        /\ call.dto.password = PwSecure => result.status = "ok"

\* a create with a free email was refused for a password whose symbols are
\* '_' and '-'
C3_Witness ==
    /\ call.op = "create"
    /\ ~EmailTaken(before, call.dto.email)
    /\ call.dto.password = PwUnderscore
    /\ result.status = "BadRequestException"

\* C4: what create, findAll, findByActiveStatus, findOne, findByEmail,
\* update, activate and deactivate return never has a password property,
\* also when the body of the create or update carried a password.
C4_NoPasswordReturned ==
    call.op # "findByEmailForAuth" => NoPasswordIn(result)

\* an update whose body carried a password has returned the user
C4_Witness ==
    /\ call.op = "update"
    /\ "password" \in DOMAIN call.dto
    /\ result.status = "ok"
    /\ Len(result.users) = 1

\* the two databases agree on everything but the passwords they hold
SamePublic ==
    /\ db.seq = dbT.seq
    /\ db.now = dbT.now
    /\ DOMAIN db.rows = DOMAIN dbT.rows
    /\ \A i \in DOMAIN db.rows :
           Omit(db.rows[i], {"password"}) = Omit(dbT.rows[i], {"password"})

\* C5: findByEmailForAuth returns the stored password and no route of the
\* controller returns one; two databases that differ only in the passwords
\* they hold give the same response to every request of the controller, and
\* go on differing only in passwords.
C5_Noninterference ==
    /\ SamePublic
    /\ resultT = result
    /\ NoPasswordIn(result)
    /\ \A e \in Emails :
           \A i \in 1 .. Len(findByEmailForAuth(db, e).res.users) :
               LET u == findByEmailForAuth(db, e).res.users[i]
               IN  "password" \in DOMAIN u /\ u.password = db.rows[u.id].password

\* the two databases hold different passwords for a user, and GET
\* /users/email/:email has just returned that user
C5_Witness ==
    /\ call.op = "findByEmail"
    /\ result.status = "ok"
    /\ Len(result.users) = 1
    /\ db.rows[result.users[1].id].password # dbT.rows[result.users[1].id].password


\* C6: a successful create stores exactly one new user, active, with the
\* roles of the body or <<"user">> when the body has none, with the names
\* and email of the body and both dates set to the time of the insert; the
\* user it returns carries the same values.
C6_CreatePersists ==
    (call.op = "create" /\ result.status = "ok") =>
        LET new == (DOMAIN db.rows) \ (DOMAIN before.rows)
            dto == call.dto
            u == result.users[1]
        IN  /\ Cardinality(new) = 1
            /\ DOMAIN before.rows \subseteq DOMAIN db.rows
            /\ \A i \in DOMAIN before.rows : db.rows[i] = before.rows[i]
            /\ Len(result.users) = 1
            /\ \A id \in new :
                   LET row == db.rows[id]
                   IN  /\ row.isActive = TRUE
                       /\ row.roles = IF "roles" \in DOMAIN dto THEN dto.roles
                                      ELSE <<"user">>
                       /\ row.firstName = dto.firstName
                       /\ row.lastName = dto.lastName
                       /\ row.email = dto.email
                       /\ row.createdAt = db.now
                       /\ row.updatedAt = db.now
                       /\ db.now > before.now
                       /\ \A f \in {"id", "firstName", "lastName", "email", "roles",
                                    "isActive", "createdAt", "updatedAt"} :
                              f \in DOMAIN u /\ u[f] = row[f]

\* a create whose body has no roles has stored a user with the default role
C6_Witness ==
    /\ call.op = "create"
    /\ result.status = "ok"
    /\ "roles" \notin DOMAIN call.dto
    /\ db.rows[result.users[1].id].roles = <<"user">>

\* C7: while every create and update body passes the validation, every
\* stored user's roles is a non-empty subset of {user, admin, moderator},
\* also after a create or update whose roles is the empty array.
C7_RolesNonEmpty ==
    dtoOk =>
        \A i \in DOMAIN db.rows :
            /\ Len(db.rows[i].roles) >= 1
            /\ \A k \in 1 .. Len(db.rows[i].roles) : db.rows[i].roles[k] \in RoleLabels

\* the value of property f of the user u, NULL when u has no such property
Field(u, f) ==
    IF f \in DOMAIN u THEN u[f]
    ELSE IF f = "dateOfBirth" THEN NullDate ELSE NullText

\* C8: after a successful create, findOne of the returned id yields a user
\* equal to the create result in id, firstName, lastName, email, roles,
\* dateOfBirth, phoneNumber, isActive, createdAt and updatedAt, without
\* password.
C8_CreateThenFindOne ==
    (call.op = "create" /\ result.status = "ok") =>
        LET created == result.users[1]
            found == findOne(db, created.id).res
        IN  /\ found.status = "ok"
            /\ "password" \notin DOMAIN found.users[1]
            /\ \A f \in PublicColumns : Field(found.users[1], f) = Field(created, f)

\* C9: findOne(id) fails with the NotFoundException 'User with ID <id> not
\* found' exactly when no stored user has that id, and otherwise returns
\* that user; no id remove has succeeded on is stored again, so every later
\* findOne of it fails.
C9_FindOne ==
    /\ removed \cap DOMAIN db.rows = {}
    /\ call.op = "findOne" =>
           /\ db = before
           /\ call.id \notin DOMAIN db.rows <=> result = NotFound(call.id)
           /\ call.id \in DOMAIN db.rows =>
                  /\ result.status = "ok"
                  /\ result.users = << Pick(db.rows[call.id], PublicColumns) >>
                  /\ result.users[1].id = call.id
           /\ call.id \in removed => result.status = "NotFoundException"

\* findOne of an id that was removed has failed, with users still stored
C9_Witness ==
    /\ call.op = "findOne"
    /\ call.id \in removed
    /\ result = NotFound(call.id)

\* C10: a successful update(id, partial) overwrites the fields present in
\* partial on that user and refreshes updatedAt; the fields absent from
\* partial, the id, createdAt and every other user are unchanged.
C10_UpdateFrame ==
    (call.op = "update" /\ result.status = "ok") =>
        LET old == before.rows[call.id]
            new == db.rows[call.id]
            dto == call.dto
        IN  /\ DOMAIN db.rows = DOMAIN before.rows
            /\ \A i \in (DOMAIN db.rows) \ {call.id} : db.rows[i] = before.rows[i]
            /\ \A f \in DOMAIN dto :
                   IF f = "dateOfBirth" THEN new[f][1] = dto[f].date ELSE new[f] = dto[f]
            /\ \A f \in AllColumns \ ((DOMAIN dto) \cup {"updatedAt"}) : new[f] = old[f]
            /\ new.updatedAt > old.updatedAt

\* what every successful update does: the fields of the body are overwritten,
\* the others, the id, createdAt and the other users are kept, and updatedAt
\* does not go back
UpdateOverwrites ==
    (call.op = "update" /\ result.status = "ok") =>
        LET old == before.rows[call.id]
            new == db.rows[call.id]
            dto == call.dto
        IN  /\ DOMAIN db.rows = DOMAIN before.rows
            /\ \A i \in (DOMAIN db.rows) \ {call.id} : db.rows[i] = before.rows[i]
            /\ \A f \in DOMAIN dto :
                   IF f = "dateOfBirth" THEN new[f][1] = dto[f].date ELSE new[f] = dto[f]
            /\ \A f \in AllColumns \ ((DOMAIN dto) \cup {"updatedAt"}) : new[f] = old[f]
            /\ new.updatedAt >= old.updatedAt


\* C11: update(id, partial) with an id that is not in the store fails with
\* NotFound naming the id, whatever partial holds, and the database is the
\* one the call started from
C11_UpdateNotFound ==
    (call.op = "update" /\ call.id \notin DOMAIN before.rows)
        => (result = NotFound(call.id) /\ db = before)

\* an update of an absent id whose body carries the email of a stored user
C11_Witness ==
    /\ call.op = "update"
    /\ call.id \notin DOMAIN before.rows
    /\ "email" \in DOMAIN call.dto
    /\ EmailTaken(before, call.dto.email)
    /\ result = NotFound(call.id)

\* the email is held by a stored user other than id
HeldByAnother(d, id, email) ==
    \E j \in (DOMAIN d.rows) \ {id} : d.rows[j].email = email

\* C12: update(id, partial) of a stored user fails with DuplicateEmail
\* exactly when partial.email is present, differs from the user's email and
\* is held by another user; the failure leaves the database as it was, and
\* an update to the user's own email does not fail with DuplicateEmail
C12_UpdateDuplicateEmail ==
    (call.op = "update" /\ call.id \in DOMAIN before.rows)
        => /\ (result = Conflict) <=>
                  (/\ "email" \in DOMAIN call.dto
                   /\ call.dto.email # before.rows[call.id].email
                   /\ HeldByAnother(before, call.id, call.dto.email))
           /\ result.status \in {"ok", "ConflictException"}
           /\ (result = Conflict) => (db = before)
           /\ ("email" \in DOMAIN call.dto
                   /\ call.dto.email = before.rows[call.id].email)
                  => result.status = "ok"

\* an update of a stored user to the email of another stored user
C12_Witness ==
    /\ call.op = "update"
    /\ call.id \in DOMAIN before.rows
    /\ "email" \in DOMAIN call.dto
    /\ HeldByAnother(before, call.id, call.dto.email)
    /\ result = Conflict

\* an update of a stored user to the email it has, which succeeds
C12_OwnEmailReached ==
    /\ call.op = "update"
    /\ call.id \in DOMAIN before.rows
    /\ "email" \in DOMAIN call.dto
    /\ call.dto.email = before.rows[call.id].email
    /\ result.status = "ok"

\* C13: remove(id) of a stored id deletes that row and no other, returns no
\* value and leaves every other row and the id sequence as they were, so
\* findAll has one entry fewer; remove(id) of an absent id fails with NotFound
\* and leaves the database as it was; a remove of the id just removed fails
C13_Remove ==
    call.op = "remove" =>
        IF call.id \in DOMAIN before.rows
        THEN /\ result = Ok(<<>>)
             /\ DOMAIN db.rows = (DOMAIN before.rows) \ {call.id}
             /\ \A i \in DOMAIN db.rows : db.rows[i] = before.rows[i]
             /\ db.seq = before.seq
             /\ Len(findAll(db).res.users) = Len(findAll(before).res.users) - 1
             /\ remove(db, call.id).res = NotFound(call.id)
             /\ remove(db, call.id).db = db
        ELSE /\ result = NotFound(call.id)
             /\ db = before

\* a remove that succeeded and left another user in the store
C13_Witness ==
    /\ call.op = "remove"
    /\ call.id \in DOMAIN before.rows
    /\ result = Ok(<<>>)
    /\ db.rows # NoUsers

\* a remove of an id that an earlier remove deleted
C13_SecondRemoveReached ==
    /\ call.op = "remove"
    /\ call.id \in removed
    /\ call.id \notin DOMAIN before.rows
    /\ result = NotFound(call.id)

\* C14: deactivate(id) and activate(id) fail with NotFound for an absent id
\* and leave the database as it was; for a stored id, whatever isActive was,
\* the row ends with isActive = FALSE after deactivate and TRUE after
\* activate, and the returned user carries that value
C14_SetActive ==
    call.op \in {"deactivate", "activate"} =>
        IF call.id \notin DOMAIN before.rows
        THEN /\ result = NotFound(call.id)
             /\ db = before
        ELSE /\ result.status = "ok"
             /\ Len(result.users) = 1
             /\ result.users[1].id = call.id
             /\ db.rows[call.id].isActive = (call.op = "activate")
             /\ result.users[1].isActive = (call.op = "activate")

\* a deactivate of a user that was inactive already
C14_Witness ==
    /\ call.op = "deactivate"
    /\ call.id \in DOMAIN before.rows
    /\ before.rows[call.id].isActive = FALSE
    /\ result.status = "ok"
    /\ db.rows[call.id].isActive = FALSE

\* an activate of an inactive user, and an activate or deactivate of an
\* absent id
C14_ActivateReached ==
    /\ call.op = "activate"
    /\ call.id \in DOMAIN before.rows
    /\ before.rows[call.id].isActive = FALSE
    /\ db.rows[call.id].isActive = TRUE

C14_NotFoundReached ==
    /\ call.op \in {"deactivate", "activate"}
    /\ db.rows # NoUsers
    /\ result = NotFound(call.id)

\* C15: after deactivate(id) followed by activate(id) on a stored user the
\* row has isActive = TRUE and every column but isActive and updatedAt holds
\* the value it had before the two calls; updatedAt has not decreased across
\* either call and is later than before the two calls
C15_DeactivateThenActivate ==
    (call.op = "activate" /\ earlier # <<>>) =>
        LET start == earlier[1]
            mid == before.rows[call.id]
            end == db.rows[call.id]
        IN  /\ result.status = "ok"
            /\ end.isActive = TRUE
            /\ \A f \in AllColumns \ {"isActive", "updatedAt"} : end[f] = start[f]
            /\ start.updatedAt <= mid.updatedAt
            /\ mid.updatedAt <= end.updatedAt
            /\ start.updatedAt < end.updatedAt

\* deactivate then activate of a user that was active, and so changed twice
C15_Witness ==
    /\ call.op = "activate"
    /\ earlier # <<>>
    /\ earlier[1].isActive = TRUE
    /\ before.rows[call.id].isActive = FALSE
    /\ db.rows[call.id].isActive = TRUE
    /\ db.rows[call.id].updatedAt > before.rows[call.id].updatedAt

\* deactivate then activate of a user that was inactive
C15_InactiveReached ==
    /\ call.op = "activate"
    /\ earlier # <<>>
    /\ earlier[1].isActive = FALSE
    /\ db.rows[call.id].isActive = TRUE

\* the users of a returned list, as a set
UserSet(users) == { users[i] : i \in 1 .. Len(users) }

\* the public view of the stored users that satisfy keep
Stored(d, keep(_)) ==
    { Pick(d.rows[i], PublicColumns) : i \in { j \in DOMAIN d.rows : keep(d.rows[j]) } }

\* C16: in every reachable state findByActiveStatus(b) returns the stored
\* users whose isActive is b, each once and none other; the lists for TRUE
\* and FALSE share no user and together hold the users findAll returns
C16_ActiveFilter ==
    /\ \A b \in BOOLEAN :
           LET r == findByActiveStatus(db, b)
               isB(row) == row.isActive = b
           IN  /\ r.res.status = "ok"
               /\ r.db = db
               /\ UserSet(r.res.users) = Stored(db, isB)
               /\ Len(r.res.users) = Cardinality(Stored(db, isB))
    /\ LET actives == UserSet(findByActiveStatus(db, TRUE).res.users)
           inactives == UserSet(findByActiveStatus(db, FALSE).res.users)
       IN  /\ actives \cap inactives = {}
           /\ actives \cup inactives = UserSet(findAll(db).res.users)
    /\ call.op = "findByActiveStatus" =>
           /\ result = findByActiveStatus(before, call.active[1]).res
           /\ db = before

\* findByActiveStatus(FALSE) has returned one user of two stored
C16_Witness ==
    /\ call.op = "findByActiveStatus"
    /\ call.active = <<FALSE>>
    /\ Len(result.users) = 1
    /\ Cardinality(DOMAIN db.rows) = 2

AnyRow(row) == TRUE

\* the number of users findAll returns from a database
Listed(d) == Len(findAll(d).res.users)

C18_FindByEmailAgrees ==
    /\ \A e \in ProbeEmails :
           LET r == findByEmail(db, e)
           IN  /\ r.res.status = "ok"
               /\ r.db = db
               /\ (r.res.users # <<>>) <=> (create(db, BaseDto(e, PwSecure)).res = Conflict)
               /\ (r.res.users # <<>>) <=> EmailTaken(db, e)
               /\ r.res.users # <<>> => r.res.users[1].email = e
    /\ call.op = "findByEmail" =>
           /\ result = findByEmail(before, call.email).res
           /\ db = before

\* findByEmail has returned null for an address that differs in case only
\* from the email of a stored user
C18_Witness ==
    /\ call.op = "findByEmail"
    /\ call.email = "A@X.COM"
    /\ EmailTaken(db, "a@x.com")
    /\ result = Ok(<<>>)

\* findByEmail has returned a stored user
C18_FoundReached ==
    /\ call.op = "findByEmail"
    /\ result.status = "ok"
    /\ result.users # <<>>
    /\ result.users[1].email = call.email

\* C19: across every call a stored user keeps its id and its createdAt; no
\* two stored users have the same id; and the id of a user a call has created
\* is one the sequence had not given out before, so never one that a remove
\* freed
C19_IdentityStable ==
    /\ \A i \in DOMAIN db.rows : db.rows[i].id = i /\ i <= db.seq
    /\ \A i, j \in DOMAIN db.rows : db.rows[i].id = db.rows[j].id => i = j
    /\ \A i \in (DOMAIN db.rows) \cap (DOMAIN before.rows) :
           /\ db.rows[i].id = before.rows[i].id
           /\ db.rows[i].createdAt = before.rows[i].createdAt
    /\ \A i \in (DOMAIN db.rows) \ (DOMAIN before.rows) :
           /\ call.op = "create"
           /\ i > before.seq
           /\ i \notin removed
    /\ before.seq <= db.seq
    /\ \A i \in removed : i <= db.seq /\ i \notin DOMAIN db.rows

\* a create has succeeded after a remove, and took a new id
C19_Witness ==
    /\ call.op = "create"
    /\ result.status = "ok"
    /\ removed # {}
    /\ result.users[1].id \notin removed
    /\ result.users[1].id \in DOMAIN db.rows

\* an update, an activate or a deactivate has changed a stored row
C19_ChangeReached ==
    /\ call.op \in {"update", "activate", "deactivate"}
    /\ result.status = "ok"
    /\ db.rows[call.id] # before.rows[call.id]

\* C20: every successful update, activate and deactivate leaves the user
\* with an updatedAt later than before the call, also when the call changes
\* no value; updatedAt never decreases and is never earlier than createdAt
C20_UpdatedAtRefreshed ==
    /\ (call.op \in {"update", "activate", "deactivate"} /\ result.status = "ok")
           => db.rows[call.id].updatedAt > before.rows[call.id].updatedAt
    /\ \A i \in (DOMAIN db.rows) \cap (DOMAIN before.rows) :
           db.rows[i].updatedAt >= before.rows[i].updatedAt
    /\ \A i \in DOMAIN db.rows : db.rows[i].updatedAt >= db.rows[i].createdAt

\* what holds of updatedAt: it never decreases, is never earlier than
\* createdAt, and is later after every successful update, activate or
\* deactivate that changed a column or carried a password
UpdatedAtMonotone ==
    /\ \A i \in (DOMAIN db.rows) \cap (DOMAIN before.rows) :
           db.rows[i].updatedAt >= before.rows[i].updatedAt
    /\ \A i \in DOMAIN db.rows : db.rows[i].updatedAt >= db.rows[i].createdAt
    /\ (call.op \in {"update", "activate", "deactivate"} /\ result.status = "ok")
           => LET old == before.rows[call.id]
                  new == db.rows[call.id]
                  same == \A f \in AllColumns \ {"updatedAt"} : new[f] = old[f]
              IN  (~same \/ "password" \in DOMAIN call.dto) => new.updatedAt > old.updatedAt

\* C21: the password a successful create stores differs from the plaintext
\* of its body, and the password findByEmailForAuth returns is none of the
\* plaintexts callers supply
C21_PasswordHashed ==
    /\ (call.op = "create" /\ result.status = "ok")
           => db.rows[result.users[1].id].password # call.dto.password
    /\ (call.op = "findByEmailForAuth" /\ result.users # <<>>)
           => result.users[1].password \notin Passwords

\* C24: a create whose email a stored user holds and whose password fails
\* the strength rule fails with DuplicateEmail, not WeakPassword, and leaves
\* the database as it was
C24_DuplicateBeforeWeak ==
    (/\ call.op = "create"
     /\ EmailTaken(before, call.dto.email)
     /\ ~isPasswordStrong(call.dto.password))
        => (result = Conflict /\ db = before)

\* a create with a stored email and a password without an uppercase letter
\* has failed with DuplicateEmail
C24_Witness ==
    /\ call.op = "create"
    /\ EmailTaken(before, call.dto.email)
    /\ call.dto.password = PwNoUpper
    /\ result = Conflict

\* C25: every password a row holds satisfies the strength rule of create,
\* a password written by update(id, {password}) included
C25_StoredPasswordsStrong ==
    \A i \in DOMAIN db.rows : isPasswordStrong(db.rows[i].password)

\* what holds of the passwords in the table: a row whose password came from
\* create satisfies the rule
CreatedPasswordsStrong ==
    (call.op = "create" /\ result.status = "ok")
        => isPasswordStrong(db.rows[result.users[1].id].password)

---------------------------------------------------------------------------
(* Concurrent calls: every await of a service method is a step of its own *)

\* calls in flight at once
NumProcs == 2

Procs == 1 .. NumProcs

EmptyDb == [rows |-> NoUsers, seq |-> 0, now |-> 0]

\* the table with the one user John Doe, a@x.com, id 1
OneUserDb == create(EmptyDb, BaseDto("a@x.com", PwSecure)).db

\* the calls that race
RaceCalls ==
    { Call("create", 0, "", <<>>, BaseDto("a@x.com", PwSecure)),
      Call("create", 0, "", <<>>, BaseDto("b@x.com", PwSecure)),
      Call("update", 1, "", <<>>, [email |-> "b@x.com"]),
      Call("update", 1, "", <<>>, [firstName |-> "Jane"]),
      Call("update", 1, "", <<>>, [password |-> PwBraces]),
      Call("deactivate", 1, "", <<>>, <<>>),
      Call("activate", 1, "", <<>>, <<>>),
      Call("remove", 1, "", <<>>, <<>>) }

\* the driver's error for a statement the table's constraints refuse; no
\* handler of the service catches it
QueryFailed(text) ==
    [status |-> "QueryFailedError", message |-> [text |-> text, id |-> 0], users |-> <<>>]

\* the unique index on email without effect
UniqueEmailViolated_off(d, id, email) == FALSE

\* @Column({unique: true}) on email: a row other than id holds the email
UniqueEmailViolated(d, id, email) ==
    \E j \in (DOMAIN d.rows) \ {id} : d.rows[j].email = email

\* INSERT of an entity that carries an id no row has: the row takes the
\* entity's columns, the sequence is not consulted
RepoInsertWithId(d, entity) ==
    LET t == d.now + 1
        row == [f \in AllColumns |-> ToColumn(f, entity[f])]
    IN  [db |-> [d EXCEPT !.rows = Assign(d.rows, [i \in {entity.id} |-> row]), !.now = t],
         entity |-> entity]

\* repository.save(entity) against the table and its constraints: INSERT for
\* an entity without id or whose id no row has, else UPDATE; password is
\* NOT NULL and email unique
SaveChecked(d, entity) ==
    LET id == IF "id" \in DOMAIN entity THEN entity.id ELSE 0
        saved ==
            IF id = 0 THEN RepoInsert(d, entity)
            ELSE IF id \in DOMAIN d.rows THEN RepoUpdate(d, entity)
            ELSE RepoInsertWithId(d, entity)
    IN  IF id # 0 /\ id \notin DOMAIN d.rows /\ "password" \notin DOMAIN entity
        THEN [db |-> d, res |-> QueryFailed("null value in column password")]
        ELSE IF UniqueEmailViolated(d, id, entity.email)
        THEN [db |-> d, res |-> QueryFailed("duplicate key value violates unique constraint")]
        ELSE [db |-> saved.db, res |-> Ok(<<Omit(saved.entity, {"password"})>>)]

\* a call that has returned or thrown
Done(res) == [pc |-> "done", user |-> <<>>, res |-> res]

\* a call suspended at its next await, holding the entity it works on
Goto(pc, user) == [pc |-> pc, user |-> user, res |-> Ok(<<>>)]

\* the object update() saves: the body assigned onto the loaded user
UpdatedEntity(user, dto) ==
    IF "dateOfBirth" \in DOMAIN dto
    THEN Assign(Assign(user, dto), [dateOfBirth |-> NewDate(dto.dateOfBirth)])
    ELSE Assign(user, dto)

\* the first await of create, update, deactivate and activate: the findOne,
\* and what the method does with its answer up to its next await
ReadOf(d, c) ==
    LET byEmail == RepoFindOne(d.rows, "email", c.dto.email, DefaultColumns)
        byId == RepoFindOne(d.rows, "id", c.id, DefaultColumns)
    IN  CASE c.op = "create" ->
                 IF byEmail # <<>> THEN Done(Conflict)
                 ELSE IF ~isPasswordStrong(c.dto.password) THEN Done(WeakPassword)
                 ELSE Goto("save", <<NewUser(c.dto)>>)
          [] c.op = "update" ->
                 IF byId = <<>> THEN Done(NotFound(c.id))
                 ELSE IF "email" \in DOMAIN c.dto /\ c.dto.email # ""
                             /\ c.dto.email # byId[1].email
                 THEN Goto("check", byId)
                 ELSE Goto("save", <<UpdatedEntity(byId[1], c.dto)>>)
          [] c.op \in {"deactivate", "activate"} ->
                 IF byId = <<>> THEN Done(NotFound(c.id))
                 ELSE Goto("save", <<Assign(byId[1], [isActive |-> (c.op = "activate")])>>)

\* the second await of an update that changes the email: the findOne by the
\* new email
CheckOf(d, c, user) ==
    IF RepoFindOne(d.rows, "email", c.dto.email, DefaultColumns) # <<>>
    THEN Done(Conflict)
    ELSE Goto("save", <<UpdatedEntity(user, c.dto)>>)

RaceInit ==
    /\ db \in {EmptyDb, OneUserDb}
    /\ procs \in [Procs -> { Assign([call |-> c], Goto("start", <<>>)) : c \in RaceCalls }]
    /\ call = Call("none", 0, "", <<>>, <<>>)
    /\ result = Ok(<<>>)
    /\ before = db
    /\ earlier = <<>>
    /\ removed = {}
    /\ dtoOk = TRUE
    /\ calls = 0
    /\ dbT = EmptyDb
    /\ resultT = Ok(<<>>)
    /\ deploy = <<>>
    /\ cache = <<>>

RaceFrame == UNCHANGED <<call, result, before, earlier, dtoOk, calls, dbT, resultT, deploy, cache>>

\* a call runs to its first await and the findOne there answers
RaceRead ==
    /\ RaceFrame
    /\ \E p \in Procs :
           /\ procs[p].pc = "start"
           /\ procs[p].call.op # "remove"
           /\ procs' = [procs EXCEPT ![p] = Assign(@, ReadOf(db, procs[p].call))]
           /\ UNCHANGED <<db, removed>>

\* an update's lookup of the new email answers
RaceCheck ==
    /\ RaceFrame
    /\ \E p \in Procs :
           /\ procs[p].pc = "check"
           /\ procs' = [procs EXCEPT
                           ![p] = Assign(@, CheckOf(db, procs[p].call, procs[p].user[1]))]
           /\ UNCHANGED <<db, removed>>

\* a call's save answers, and the call returns or throws
RaceSave ==
    /\ RaceFrame
    /\ \E p \in Procs :
           /\ procs[p].pc = "save"
           /\ LET s == SaveChecked(db, procs[p].user[1])
              IN  /\ db' = s.db
                  /\ procs' = [procs EXCEPT ![p] = Assign(@, Done(s.res))]
           /\ UNCHANGED removed

\* remove: the delete answers, and the call returns or throws
RaceDelete ==
    /\ RaceFrame
    /\ \E p \in Procs :
           /\ procs[p].pc = "start"
           /\ procs[p].call.op = "remove"
           /\ LET r == remove(db, procs[p].call.id)
              IN  /\ db' = r.db
                  /\ procs' = [procs EXCEPT ![p] = Assign(@, Done(r.res))]
                  /\ removed' = IF r.res.status = "ok"
                                 THEN removed \cup {procs[p].call.id} ELSE removed

RaceNext ==
    \/ RaceRead
    \/ RaceCheck
    \/ RaceSave
    \/ RaceDelete

SpecRace == RaceInit /\ [][RaceNext]_vars

\* the email a call would give a row: that of a create's body, or of an
\* update's body when it has one
EmailSet(c) ==
    IF c.op \in {"create", "update"} /\ "email" \in DOMAIN c.dto THEN {c.dto.email} ELSE {}

\* C22: under every interleaving of concurrent create calls, and update calls
\* that set email, with the lookup and the save separate steps and the table
\* enforcing its unique index, no two rows have the same email
C22_RaceUniqueEmail ==
    \A i, j \in DOMAIN db.rows : db.rows[i].email = db.rows[j].email => i = j

\* two calls with the same email both passed their lookup; one has saved and
\* the index has refused the save of the other
C22_Witness ==
    \E p, q \in Procs :
        /\ p # q
        /\ EmailSet(procs[p].call) # {}
        /\ EmailSet(procs[p].call) = EmailSet(procs[q].call)
        /\ procs[p].pc = "done" /\ procs[p].res.status = "ok"
        /\ procs[q].pc = "done" /\ procs[q].res.status = "QueryFailedError"
        /\ \E i \in DOMAIN db.rows : db.rows[i].email \in EmailSet(procs[p].call)

\* an update that sets the email and a create with that email have raced
C22_UpdateRaceReached ==
    \E p, q \in Procs :
        /\ procs[p].call.op = "update" /\ procs[q].call.op = "create"
        /\ EmailSet(procs[p].call) = EmailSet(procs[q].call)
        /\ procs[p].pc = "done" /\ procs[q].pc = "done"
        /\ "QueryFailedError" \in {procs[p].res.status, procs[q].res.status}

\* C23: every create that persists no user because its email is taken
\* fails with DuplicateEmail, the create that loses a race of two creates
\* that both passed the lookup included
C23_LoserGetsDuplicateEmail ==
    \A p \in Procs :
        (/\ procs[p].call.op = "create"
         /\ procs[p].pc = "done"
         /\ procs[p].res.status # "ok"
         /\ EmailTaken(db, procs[p].call.dto.email))
            => procs[p].res = Conflict

\* what holds of a create that fails on a taken email: it fails with
\* DuplicateEmail when the lookup saw the email, and with the driver's
\* error when only the index did
LoserGetsSomeError ==
    \A p \in Procs :
        (/\ procs[p].call.op = "create"
         /\ procs[p].pc = "done"
         /\ procs[p].res.status # "ok")
            => procs[p].res.status \in {"ConflictException", "QueryFailedError"}

\* C26: once remove(id) has returned, no row has that id in any later
\* state, also when an update, activate or deactivate of the id read the
\* user before the delete and saves after it
C26_RemovedStaysRemoved ==
    \A i \in removed : i \notin DOMAIN db.rows

\* what holds of two calls, a remove and a call whose entity has no
\* password: the id stays without a row, a late save being refused
LateSaveWithoutPassword ==
    \A p \in Procs :
        (/\ procs[p].call.op \in {"update", "activate", "deactivate"}
         /\ "password" \notin DOMAIN procs[p].call.dto
         /\ procs[p].pc = "done"
         /\ procs[p].call.id \in removed)
            => procs[p].call.id \notin DOMAIN db.rows

\* C27: when update(id, {firstName: x}) and deactivate(id) have run
\* concurrently on a stored user and both have returned, the row has
\* firstName = x and isActive = FALSE, whatever the order of their steps
C27_NoLostUpdate ==
    \A p, q \in Procs :
        (/\ procs[p].call.op = "update"
         /\ "firstName" \in DOMAIN procs[p].call.dto
         /\ procs[q].call.op = "deactivate"
         /\ procs[q].call.id = procs[p].call.id
         /\ procs[p].pc = "done" /\ procs[p].res.status = "ok"
         /\ procs[q].pc = "done" /\ procs[q].res.status = "ok"
         /\ procs[p].call.id \in DOMAIN db.rows)
            => /\ db.rows[procs[p].call.id].firstName = procs[p].call.dto.firstName
               /\ db.rows[procs[p].call.id].isActive = FALSE

---------------------------------------------------------------------------
(* deploy-production.sh: main under set -e, with rollback trapped on EXIT *)

\* the steps of main, in the order main calls them
StepOrder ==
    << "check_requirements", "load_env", "create_backup", "build_app",
       "build_docker", "stop_container", "deploy_app" >>

\* the exit statuses: of exit 1 in error(), of a command that failed, and of
\* a command the shell did not find
ExitError == 1
ExitCommand == 2
ExitNotFound == 127

\* what JWT_SECRET is after .env is loaded
JwtValues == {"unset", "default", "secret"}

\* the host before the script starts, and main after it has set its traps
DeployStart(docker, compose, envFile, jwt, dbPassword, dist, running) ==
    [pc |-> "check_requirements", ran |-> <<>>, failedAt |-> "", exitTrap |-> TRUE,
     status |-> 0, rollbacks |-> 0, backupDir |-> FALSE,
     docker |-> docker, compose |-> compose, envFile |-> envFile, jwt |-> jwt,
     dbPassword |-> dbPassword, dist |-> dist,
     running |-> running, wasRunning |-> running]

\* main calls the step
Enter(d, step) == [d EXCEPT !.ran = Append(@, step)]

\* the step after step, or the end of main
After(step) ==
    LET i == CHOOSE k \in 1 .. Len(StepOrder) : StepOrder[k] = step
    IN  IF i = Len(StepOrder) THEN "finish" ELSE StepOrder[i + 1]

\* the step returns and main goes on
Pass(d, step) == [Enter(d, step) EXCEPT !.pc = After(step)]

\* exit from within the step, by error() or by set -e: the shell starts to exit
Fail(d, step, status) ==
    [Enter(d, step) EXCEPT !.pc = "exiting", !.failedAt = step, !.status = status]

check_requirements(d) ==
    IF ~d.docker \/ ~d.compose \/ ~d.envFile
    THEN Fail(d, "check_requirements", ExitError)
    ELSE Pass(d, "check_requirements")

load_env(d) ==
    IF ~d.envFile \/ d.jwt \in {"unset", "default"} \/ ~d.dbPassword
    THEN Fail(d, "load_env", ExitError)
    ELSE Pass(d, "load_env")

\* mkdir, the pg_dump when the container runs, the copy of dist when it is
\* there; ok is whether those commands succeed
create_backup(d, ok) ==
    IF ok THEN [Pass(d, "create_backup") EXCEPT !.backupDir = TRUE]
    ELSE Fail(d, "create_backup", ExitCommand)

\* npm ci and npm run build
build_app(d, ok) ==
    IF ok THEN [Pass(d, "build_app") EXCEPT !.dist = TRUE]
    ELSE Fail(d, "build_app", ExitCommand)

build_docker(d, ok) ==
    IF ok THEN Pass(d, "build_docker") ELSE Fail(d, "build_docker", ExitCommand)

\* docker stop and docker rm when the container runs
stop_container(d, ok) ==
    IF ~d.running THEN Pass(d, "stop_container")
    ELSE IF ok THEN [Pass(d, "stop_container") EXCEPT !.running = FALSE]
    ELSE Fail(d, "stop_container", ExitCommand)

\* docker-compose up -d, then the health check with curl
deploy_app(d, up, healthy) ==
    IF ~up THEN Fail(d, "deploy_app", ExitCommand)
    ELSE IF ~healthy THEN [Fail(d, "deploy_app", ExitError) EXCEPT !.running = TRUE]
    ELSE [Pass(d, "deploy_app") EXCEPT !.running = TRUE]

\* the end of main with the EXIT trap left in place
finish_keepsTrap(d) == [d EXCEPT !.pc = "exiting", !.status = 0]

\* the end of main: trap - EXIT, the messages, and the script ends
finish(d) == [d EXCEPT !.pc = "exiting", !.exitTrap = FALSE, !.status = 0]

\* rollback: docker-compose down, then error "Rollback completed"; down is
\* whether docker-compose down succeeds
rollback(d, down) ==
    IF ~d.compose
    THEN [d EXCEPT !.rollbacks = @ + 1, !.status = ExitNotFound]
    ELSE IF ~down
    THEN [d EXCEPT !.rollbacks = @ + 1, !.status = ExitCommand]
    ELSE [d EXCEPT !.rollbacks = @ + 1, !.running = FALSE, !.status = ExitError]

\* the shell exits: the EXIT trap runs if it is set, and the process ends
exit(d, down) ==
    [(IF d.exitTrap THEN rollback(d, down) ELSE d) EXCEPT !.pc = "exited"]

DeployInit ==
    /\ deploy \in { DeployStart(docker, compose, envFile, jwt, dbPassword, dist, running) :
                       docker \in BOOLEAN, compose \in BOOLEAN, envFile \in BOOLEAN,
                       jwt \in JwtValues, dbPassword \in BOOLEAN, dist \in BOOLEAN,
                       running \in BOOLEAN }
    /\ db = EmptyDb
    /\ call = Call("none", 0, "", <<>>, <<>>)
    /\ result = Ok(<<>>)
    /\ before = db
    /\ earlier = <<>>
    /\ removed = {}
    /\ dtoOk = TRUE
    /\ calls = 0
    /\ dbT = EmptyDb
    /\ resultT = Ok(<<>>)
    /\ procs = <<>>
    /\ cache = <<>>

DeployFrame ==
    UNCHANGED <<db, call, result, before, earlier, removed, dtoOk, calls, dbT, resultT,
                procs, cache>>

CheckRequirements ==
    /\ DeployFrame
    /\ deploy.pc = "check_requirements"
    /\ deploy' = check_requirements(deploy)

LoadEnv ==
    /\ DeployFrame
    /\ deploy.pc = "load_env"
    /\ deploy' = load_env(deploy)

CreateBackup ==
    /\ DeployFrame
    /\ deploy.pc = "create_backup"
    /\ \E ok \in BOOLEAN : deploy' = create_backup(deploy, ok)

BuildApp ==
    /\ DeployFrame
    /\ deploy.pc = "build_app"
    /\ \E ok \in BOOLEAN : deploy' = build_app(deploy, ok)

BuildDocker ==
    /\ DeployFrame
    /\ deploy.pc = "build_docker"
    /\ \E ok \in BOOLEAN : deploy' = build_docker(deploy, ok)

StopContainer ==
    /\ DeployFrame
    /\ deploy.pc = "stop_container"
    /\ \E ok \in BOOLEAN : deploy' = stop_container(deploy, ok)

DeployApp ==
    /\ DeployFrame
    /\ deploy.pc = "deploy_app"
    /\ \E up \in BOOLEAN, healthy \in BOOLEAN : deploy' = deploy_app(deploy, up, healthy)

Finish ==
    /\ DeployFrame
    /\ deploy.pc = "finish"
    /\ deploy' = finish(deploy)

Exit ==
    /\ DeployFrame
    /\ deploy.pc = "exiting"
    /\ \E down \in BOOLEAN : deploy' = exit(deploy, down)

DeployNext ==
    \/ CheckRequirements
    \/ LoadEnv
    \/ CreateBackup
    \/ BuildApp
    \/ BuildDocker
    \/ StopContainer
    \/ DeployApp
    \/ Finish
    \/ Exit

SpecDeploy == DeployInit /\ [][DeployNext]_vars

\* C28: main calls the steps in the order check_requirements, load_env,
\* create_backup, build_app, build_docker, stop_container, deploy_app; when a
\* step fails, an unset or default JWT_SECRET and a failed health check
\* included, rollback runs before the script exits and the exit status is not
\* 0; when every step succeeds rollback does not run and the status is 0
C28_DeployOrderAndRollback ==
    /\ deploy.ran = SubSeq(StepOrder, 1, Len(deploy.ran))
    /\ (deploy.jwt \in {"unset", "default"} /\ Len(deploy.ran) >= 2)
           => deploy.failedAt = "load_env"
    /\ (deploy.pc = "exiting" /\ deploy.failedAt # "")
           => (deploy.exitTrap /\ deploy.rollbacks = 0)
    /\ deploy.rollbacks > 0 => (deploy.pc = "exited" /\ deploy.failedAt # "")
    /\ deploy.pc = "exited" =>
           IF deploy.failedAt # ""
           THEN deploy.rollbacks = 1 /\ deploy.status # 0
           ELSE deploy.ran = StepOrder /\ deploy.rollbacks = 0 /\ deploy.status = 0

\* the script has exited after the health check of deploy_app failed
C28_Witness ==
    /\ deploy.pc = "exited"
    /\ deploy.failedAt = "deploy_app"
    /\ deploy.ran = StepOrder
    /\ deploy.rollbacks = 1
    /\ deploy.status = ExitError
    /\ ~deploy.running

\* the script has exited after every step succeeded
C28_SuccessReached ==
    /\ deploy.pc = "exited"
    /\ deploy.failedAt = ""
    /\ deploy.status = 0
    /\ deploy.running

\* the script has exited on the default JWT_SECRET
C28_JwtReached ==
    /\ deploy.pc = "exited"
    /\ deploy.jwt = "default"
    /\ deploy.failedAt = "load_env"
    /\ deploy.rollbacks = 1

\* the steps main calls before stop_container
EarlySteps ==
    {"check_requirements", "load_env", "create_backup", "build_app", "build_docker"}

\* C29: when the script fails at a step before stop_container, the services
\* that ran before the script started still run when it has exited
C29_EarlyFailureKeepsServices ==
    (/\ deploy.pc = "exited"
     /\ deploy.failedAt \in EarlySteps
     /\ deploy.wasRunning)
        => deploy.running

\* what holds of an early failure: the services keep running until the
\* script starts to exit, and after it when docker-compose down did not
\* succeed
EarlyFailureBeforeRollback ==
    /\ (deploy.pc = "exiting" /\ deploy.failedAt \in EarlySteps)
           => deploy.running = deploy.wasRunning
    /\ (deploy.pc = "exited" /\ deploy.failedAt \in EarlySteps
            /\ deploy.status # ExitError)
           => deploy.running = deploy.wasRunning

---------------------------------------------------------------------------
(* The application module with the global CacheInterceptor *)

\* CACHE_TTL, in seconds, and CACHE_MAX
CacheTtl == 300
CacheMax == 100

\* the clock advances by half the TTL at a time
TickSeconds == CacheTtl \div 2

\* advances of the clock in one run
MaxTicks == 3

\* the requests GET /users and GET /users/:id
GetRequests ==
    { Call("findAll", 0, "", <<>>, <<>>) }
        \cup { Call("findOne", id, "", <<>>, <<>>) : id \in {1, 2} }

\* the requests POST /users, PATCH /users/:id and DELETE /users/:id
PostRequests == { Call("create", 0, "", <<>>, BaseDto(e, PwSecure)) : e \in Emails }
PatchRequests == { Call("update", id, "", <<>>, [firstName |-> "Jane"]) : id \in {1, 2} }
DeleteRequests == { Call("remove", id, "", <<>>, <<>>) : id \in {1, 2} }

\* the entry the cache holds for the URL of a request and has not expired
Cached(k, c) == { e \in k.entries : e.key = c /\ e.expires > k.now }

\* cache.set: the entry replaces the one of the same key; over CACHE_MAX
\* entries the one that expires first is dropped
CacheSet(k, c, res) ==
    LET kept == { e \in k.entries : e.key # c }
        entry == [key |-> c, value |-> res, expires |-> k.now + CacheTtl]
        first == CHOOSE e \in kept : \A f \in kept : e.expires <= f.expires
    IN  IF Cardinality(kept) >= CacheMax
        THEN (kept \ {first}) \cup {entry}
        ELSE kept \cup {entry}

\* CacheInterceptor.intercept: a GET whose URL has a live entry is answered
\* from the cache and the handler is not called; the response of a GET the
\* handler answers is stored under the URL; an exception is not stored and
\* the other methods pass through
Intercept(d, k, c) ==
    LET r == Controller(d, c)
        hit == Cached(k, c)
    IN  IF c \notin GetRequests
        THEN [db |-> r.db, res |-> r.res, cache |-> [k EXCEPT !.hit = FALSE]]
        ELSE IF hit # {}
        THEN [db |-> d, res |-> (CHOOSE e \in hit : TRUE).value,
              cache |-> [k EXCEPT !.hit = TRUE]]
        ELSE IF r.res.status = "ok"
        THEN [db |-> r.db, res |-> r.res,
              cache |-> [k EXCEPT !.hit = FALSE, !.entries = CacheSet(k, c, r.res)]]
        ELSE [db |-> r.db, res |-> r.res, cache |-> [k EXCEPT !.hit = FALSE]]

CacheInit ==
    /\ db = EmptyDb
    /\ cache = [entries |-> {}, now |-> 0, hit |-> FALSE]
    /\ call = Call("none", 0, "", <<>>, <<>>)
    /\ result = Ok(<<>>)
    /\ before = db
    /\ earlier = <<>>
    /\ removed = {}
    /\ dtoOk = TRUE
    /\ calls = 0
    /\ dbT = EmptyDb
    /\ resultT = Ok(<<>>)
    /\ procs = <<>>
    /\ deploy = <<>>

\* one request through the interceptor
Request(c) ==
    LET r == Intercept(db, cache, c)
    IN  /\ db' = r.db
        /\ cache' = r.cache
        /\ call' = c
        /\ result' = r.res
        /\ before' = db
        /\ removed' = IF c.op = "remove" /\ r.res.status = "ok"
                       THEN removed \cup {c.id} ELSE removed
        /\ calls' = calls + 1
        /\ UNCHANGED <<earlier, dtoOk, dbT, resultT, procs, deploy>>

HttpGet ==
    /\ calls < MaxCalls
    /\ \E c \in GetRequests : Request(c)

HttpPost ==
    /\ calls < MaxCalls
    /\ \E c \in PostRequests : Request(c)

HttpPatch ==
    /\ calls < MaxCalls
    /\ \E c \in PatchRequests : Request(c)

HttpDelete ==
    /\ calls < MaxCalls
    /\ \E c \in DeleteRequests : Request(c)

\* time passes
Tick ==
    /\ cache.now < MaxTicks * TickSeconds
    /\ cache' = [cache EXCEPT !.now = @ + TickSeconds]
    /\ UNCHANGED <<db, call, result, before, earlier, removed, dtoOk, calls, dbT,
                   resultT, procs, deploy>>

CacheNext ==
    \/ HttpGet
    \/ HttpPost
    \/ HttpPatch
    \/ HttpDelete
    \/ Tick

SpecCache == CacheInit /\ [][CacheNext]_vars

\* C30: with the global CacheInterceptor, the response of GET /users or
\* GET /users/:id shows the table as the mutations before it left it: every
\* user in it is stored with the values shown, GET /users lists every stored
\* user, and no user removed is shown
C30_ReadsReflectMutations ==
    (call \in GetRequests /\ result.status = "ok")
        => /\ \A i \in 1 .. Len(result.users) :
                  /\ result.users[i].id \in DOMAIN db.rows
                  /\ result.users[i].id \notin removed
                  /\ result.users[i] = Pick(db.rows[result.users[i].id], PublicColumns)
           /\ call.op = "findAll" => Len(result.users) = Cardinality(DOMAIN db.rows)

\* what holds of a GET: the response is the handler's own when the cache had
\* no live entry for the URL, so after the TTL has passed
FreshWhenMissed ==
    (call \in GetRequests /\ ~cache.hit) => result = Controller(db, call).res

============================================================================
